---- MODULE Spec2Model ----
(***************************************************************************)
(* c-sundry: the atomic reference counter CRef (c_ref_add,                 *)
(* c_ref_add_unless_zero, c_ref_sub) and the intrusive doubly-linked list  *)
(* CList / CListEntry (c_list_prepend, c_list_append, c_list_remove).      *)
(*                                                                         *)
(* SpecRef    : threads operating on one CRef, one atomic access per step. *)
(* SpecSeq    : one caller of the CRef functions, with every argument.     *)
(* SpecRefAny : one caller of the CRef functions that keeps no contract.   *)
(* SpecMem    : threads that also write to the object owning the counter,  *)
(*              with what the memory orders make visible to whom.          *)
(* SpecFair   : the threads under a fair scheduler.                        *)
(* SpecTrace  : one caller whose calls are noted, with the counts of       *)
(*              test_ref.                                                  *)
(* SpecNull   : one caller that passes the counter or NULL.                *)
(* SpecList   : one owner operating on the lists and their entries.        *)
(* SpecListAny: an owner that keeps no contract on insertion and removal.   *)
(*                                                                         *)
(* And two helpers of c-macro.h and c-bitmap.h: c_div_round_up (SpecDiv)   *)
(* and c_bitmap_test / c_bitmap_set / c_bitmap_clear (SpecBitmap).         *)
(***************************************************************************)
EXTENDS Integers, Sequences, FiniteSets, TLC

(***************************************************************************)
(* Bounds of the model.                                                    *)
(***************************************************************************)
NumThreads == 2        \* threads sharing the counter
MaxN == 2              \* largest n passed to add / add_unless_zero / sub
MaxAcquire == 2        \* references acquired in one run, beyond the first
ULONG_BITS == 8        \* width given to 'unsigned long' in the model
MaxZero == 2           \* c_ref_sub calls that store 0 (SpecRefAny)
MaxWrites == 2         \* writes to the object that owns the counter (SpecMem)
MaxSpurious == 1       \* spurious compare-exchange failures (SpecFair)
MaxTrace == 4          \* calls the caller of SpecTrace makes
NumLists == 2          \* CList objects
NumEntries == 4        \* CListEntry objects
UINT_BITS == 6         \* width given to the operands of c_div_round_up
INT_BITS == 16         \* width given to 'int', which uint8_t is promoted to
NumBits == 9           \* n_bits: the bits of the bitmap

Threads == 1..NumThreads
Counts == 1..MaxN
ULONG_MOD == 2^ULONG_BITS

(***************************************************************************)
(* Values of the CRef part.                                                *)
(***************************************************************************)
NullRef == "NULL"                       \* (CRef *)NULL
TheRef == "ref"                         \* the address of the one counter
RefPtrs == {NullRef, TheRef}
NoFunc == "NULL"                        \* (CRefFn)NULL
UserFunc == "release_fn"                \* a caller's release function
Unreachable == "c_ref_unreachable"
Funcs == {NoFunc, Unreachable, UserFunc}
NoData == "NULL"                        \* (void *)NULL
UserData == {NoData, "0xdeadbeef"}      \* opaque userdata values
NoArg == [ref |-> NullRef, n |-> 0, func |-> NoFunc, userdata |-> NoData]
ZeroView == [u \in Threads |-> 0]

VARIABLES
    n_refs,      \* CRef.n_refs, the atomic counter
    pc,          \* pc[t]: where thread t stands inside a c_ref_* call
    local,       \* local[t]: the call's local variable n_refs
    arg,         \* arg[t]: the arguments of the call thread t is in
    ret,         \* the last completed call: who called what, the value returned
    inCb,        \* inCb[t]: t is running inside a release function
    calls,       \* the release-function invocations so far, in order
    aborted,     \* an assert() failed: the process is gone
    held,        \* held[t]: references thread t owns (the callers' book)
    acquired,    \* sum of n over the acquisitions performed
    released,    \* sum of n over the releases performed
    wasZero,     \* the counter has been 0 after some operation
    zeroBy,      \* the c_ref_sub calls whose subtraction stored 0, in order
    writes,      \* writes[t]: writes thread t made to the owning object
    seen,        \* seen[t][u]: how many of u's writes happen before t's next step
    pub,         \* pub[u]: how many of u's writes the counter's value publishes
    got,         \* got[t][u]: what the value t's atomic_fetch_sub read carries
    trace,       \* the calls of the caller of SpecTrace, with the counter after each
    spurious     \* compare-exchanges that failed with the counter as expected

memVars == <<writes, seen, pub, got>>
histVars == <<trace, spurious>>
refVars == <<n_refs, pc, local, arg, ret, inCb, calls, aborted,
             held, acquired, released, wasZero, zeroBy, memVars, histVars>>

(***************************************************************************)
(* C_REF_INIT: the counter starts at 1; the creator (thread 1) owns that   *)
(* reference.                                                              *)
(***************************************************************************)
C_REF_INIT == 1

InitRef ==
    /\ n_refs = C_REF_INIT
    /\ pc = [t \in Threads |-> "idle"]
    /\ local = [t \in Threads |-> 0]
    /\ arg = [t \in Threads |-> NoArg]
    /\ ret = [by |-> 0, fn |-> "none", val |-> NullRef]
    /\ inCb = [t \in Threads |-> FALSE]
    /\ calls = <<>>
    /\ aborted = FALSE
    /\ held = [t \in Threads |-> IF t = 1 THEN C_REF_INIT ELSE 0]
    /\ acquired = 0
    /\ released = 0
    /\ wasZero = FALSE
    /\ zeroBy = <<>>
    /\ writes = [t \in Threads |-> 0]
    /\ seen = [t \in Threads |-> ZeroView]
    /\ pub = ZeroView
    /\ got = [t \in Threads |-> ZeroView]
    /\ trace = <<>>
    /\ spurious = 0

(***************************************************************************)
(* Memory order.  A view says, for each thread u, how many of u's writes   *)
(* to the object that owns the counter happen before a point.  seen[t] is  *)
(* thread t's view; pub is the view published through the counter: that of *)
(* the release operations whose release sequences hold the counter's       *)
(* current value (every modification of n_refs is a read-modify-write, so  *)
(* every release sequence goes on to the current value); got[t] is the     *)
(* view that came with the value t's atomic_fetch_sub read, which an       *)
(* acquire fence after it turns into happens-before.  What is published    *)
(* only grows, so the reads t made before observed no more than that one,  *)
(* and got[t] is kept from the subtraction to the end of c_ref_sub only.   *)
(***************************************************************************)
Join(v, w) == [u \in Threads |-> IF v[u] >= w[u] THEN v[u] ELSE w[u]]

\* memory_order_relaxed read or read-modify-write by t: nothing is published
\* and nothing acquired; the release sequences go on
atomic_relaxed(t) == UNCHANGED <<writes, seen, pub, got>>

\* memory_order_release read-modify-write: t reads the counter and publishes
\* its view
atomic_release(t) ==
    /\ got' = [got EXCEPT ![t] = pub]
    /\ pub' = Join(pub, seen[t])
    /\ UNCHANGED <<writes, seen>>

\* variant: no fence
atomic_thread_fence_none(t) ==
    /\ got' = [got EXCEPT ![t] = ZeroView]
    /\ UNCHANGED <<writes, seen, pub>>

\* atomic_thread_fence(memory_order_acquire): what t's read observed happens
\* before what t does next
atomic_thread_fence(t) ==
    /\ seen' = [seen EXCEPT ![t] = Join(@, got[t])]
    /\ got' = [got EXCEPT ![t] = ZeroView]
    /\ UNCHANGED <<writes, pub>>

\* c_ref_sub ends without a fence
NoFence(t) ==
    /\ got' = [got EXCEPT ![t] = ZeroView]
    /\ UNCHANGED <<writes, seen, pub>>

(***************************************************************************)
(* The atomic read-modify-write operations on 'unsigned long': each yields *)
(* the value it stores (the value it returns is the old one, kept in       *)
(* local[t] by the caller).  All accesses are to the one atomic object     *)
(* n_refs, whose modifications are totally ordered whatever the memory     *)
(* order asked for, so a step is one access.                               *)
(***************************************************************************)
\* variant: adds one reference whatever n is
atomic_fetch_add_one(v, n) == (v + 1) % ULONG_MOD

atomic_fetch_add(v, n) == (v + n) % ULONG_MOD

\* variant: gives up one reference whatever n is
atomic_fetch_sub_one(v, n) == (v - 1) % ULONG_MOD

atomic_fetch_sub(v, n) == (v - n) % ULONG_MOD

\* what the caller's book says after giving up n references
Drop(h, n) == IF h >= n THEN h - n ELSE 0

\* assert() failure: abort()
Abort ==
    /\ aborted' = TRUE
    /\ UNCHANGED <<n_refs, pc, local, arg, ret, inCb, calls,
                   held, acquired, released, wasZero, zeroBy, memVars>>

\* thread t leaves function fn with value v
Return(t, fn, v) ==
    /\ pc' = [pc EXCEPT ![t] = "idle"]
    /\ ret' = [by |-> t, fn |-> fn, val |-> v]
    /\ local' = [local EXCEPT ![t] = 0]
    /\ arg' = [arg EXCEPT ![t] = NoArg]

(***************************************************************************)
(* c_ref_add(ref, n)                                                       *)
(***************************************************************************)
\* variant: no assert(n_refs > 0) after the addition
c_ref_add_unasserted(t, ref, n) ==
    /\ ~aborted
    /\ pc[t] = "idle"
    /\ IF n = 0
       THEN Abort
       ELSE IF ref = NullRef
       THEN /\ Return(t, "c_ref_add", ref)
            /\ UNCHANGED <<n_refs, inCb, calls, aborted, held, acquired,
                           released, wasZero, zeroBy, memVars>>
       ELSE /\ n_refs' = atomic_fetch_add(n_refs, n)
            /\ held' = [held EXCEPT ![t] = @ + n]
            /\ acquired' = acquired + n
            /\ wasZero' = (wasZero \/ n_refs' = 0)
            /\ Return(t, "c_ref_add", ref)
            /\ atomic_relaxed(t)
            /\ UNCHANGED <<inCb, calls, aborted, released, zeroBy>>

c_ref_add(t, ref, n) ==
    /\ ~aborted
    /\ pc[t] = "idle"
    /\ IF n = 0
       THEN Abort                                   \* assert(n > 0)
       ELSE IF ref = NullRef
       THEN /\ Return(t, "c_ref_add", ref)
            /\ UNCHANGED <<n_refs, inCb, calls, aborted, held, acquired,
                           released, wasZero, zeroBy, memVars>>
       ELSE \* n_refs = atomic_fetch_add(&ref->n_refs, n); assert(n_refs > 0);
            \* the assertion reads the call's local variable only
            /\ n_refs' = atomic_fetch_add(n_refs, n)
            /\ held' = [held EXCEPT ![t] = @ + n]
            /\ acquired' = acquired + n
            /\ wasZero' = (wasZero \/ n_refs' = 0)
            /\ IF n_refs > 0
               THEN /\ Return(t, "c_ref_add", ref)
                    /\ UNCHANGED aborted
               ELSE /\ aborted' = TRUE
                    /\ UNCHANGED <<pc, local, arg, ret>>
            /\ atomic_relaxed(t)
            /\ UNCHANGED <<inCb, calls, released, zeroBy>>

(***************************************************************************)
(* c_ref_add_unless_zero(ref, n)                                           *)
(***************************************************************************)
c_ref_add_unless_zero(t, ref, n) ==
    /\ ~aborted
    /\ pc[t] = "idle"
    /\ IF n = 0
       THEN Abort                                   \* assert(n > 0)
       ELSE IF ref = NullRef
       THEN /\ Return(t, "c_ref_add_unless_zero", ref)
            /\ UNCHANGED <<n_refs, inCb, calls, aborted, held, acquired,
                           released, wasZero, zeroBy, memVars>>
       ELSE /\ local' = [local EXCEPT ![t] = n_refs]      \* atomic_load
            /\ arg' = [arg EXCEPT ![t] = [NoArg EXCEPT !.ref = ref, !.n = n]]
            /\ pc' = [pc EXCEPT ![t] = "cmpxchg"]
            /\ atomic_relaxed(t)
            /\ UNCHANGED <<n_refs, ret, inCb, calls, aborted, held,
                           acquired, released, wasZero, zeroBy>>

\* if (n_refs == 0) return NULL;
c_ref_add_unless_zero_fail(t) ==
    /\ ~aborted
    /\ pc[t] = "cmpxchg"
    /\ local[t] = 0
    /\ Return(t, "c_ref_add_unless_zero", NullRef)
    /\ UNCHANGED <<n_refs, inCb, calls, aborted, held, acquired,
                   released, wasZero, zeroBy, memVars>>

\* variant: the loop does not test the value it read for 0
c_ref_add_unless_zero_swap_untested(t) ==
    /\ ~aborted
    /\ pc[t] = "cmpxchg"
    /\ n_refs = local[t]
    /\ n_refs' = (local[t] + arg[t].n) % ULONG_MOD
    /\ held' = [held EXCEPT ![t] = @ + arg[t].n]
    /\ acquired' = acquired + arg[t].n
    /\ wasZero' = (wasZero \/ n_refs' = 0)
    /\ Return(t, "c_ref_add_unless_zero", arg[t].ref)
    /\ atomic_relaxed(t)
    /\ UNCHANGED <<inCb, calls, aborted, released, zeroBy>>

\* variant: a plain store of the value read plus n, without the comparison
c_ref_add_unless_zero_swap_blind(t) ==
    /\ ~aborted
    /\ pc[t] = "cmpxchg"
    /\ local[t] # 0
    /\ n_refs' = (local[t] + arg[t].n) % ULONG_MOD
    /\ held' = [held EXCEPT ![t] = @ + arg[t].n]
    /\ acquired' = acquired + arg[t].n
    /\ wasZero' = (wasZero \/ n_refs' = 0)
    /\ Return(t, "c_ref_add_unless_zero", arg[t].ref)
    /\ atomic_relaxed(t)
    /\ UNCHANGED <<inCb, calls, aborted, released, zeroBy>>

\* variant: the compare-exchange stores the value read plus 1
c_ref_add_unless_zero_swap_one(t) ==
    /\ ~aborted
    /\ pc[t] = "cmpxchg"
    /\ local[t] # 0
    /\ n_refs = local[t]
    /\ n_refs' = (local[t] + 1) % ULONG_MOD
    /\ held' = [held EXCEPT ![t] = @ + arg[t].n]
    /\ acquired' = acquired + arg[t].n
    /\ wasZero' = (wasZero \/ n_refs' = 0)
    /\ Return(t, "c_ref_add_unless_zero", arg[t].ref)
    /\ atomic_relaxed(t)
    /\ UNCHANGED <<inCb, calls, aborted, released, zeroBy>>

\* atomic_compare_exchange_weak succeeds: the counter held the expected value
c_ref_add_unless_zero_swap(t) ==
    /\ ~aborted
    /\ pc[t] = "cmpxchg"
    /\ local[t] # 0
    /\ n_refs = local[t]
    /\ n_refs' = (local[t] + arg[t].n) % ULONG_MOD
    /\ held' = [held EXCEPT ![t] = @ + arg[t].n]
    /\ acquired' = acquired + arg[t].n
    /\ wasZero' = (wasZero \/ n_refs' = 0)
    /\ Return(t, "c_ref_add_unless_zero", arg[t].ref)
    /\ atomic_relaxed(t)
    /\ UNCHANGED <<inCb, calls, aborted, released, zeroBy>>

\* variant: a failed compare-exchange leaves the expected value as it was
c_ref_add_unless_zero_retry_stale(t) ==
    /\ ~aborted
    /\ pc[t] = "cmpxchg"
    /\ local[t] # 0
    /\ atomic_relaxed(t)
    /\ UNCHANGED <<n_refs, pc, local, arg, ret, inCb, calls, aborted, held,
                   acquired, released, wasZero, zeroBy>>

\* atomic_compare_exchange_weak fails (the counter differs, or spuriously):
\* the expected value is reloaded and the loop goes round
c_ref_add_unless_zero_retry(t) ==
    /\ ~aborted
    /\ pc[t] = "cmpxchg"
    /\ local[t] # 0
    /\ local' = [local EXCEPT ![t] = n_refs]
    /\ atomic_relaxed(t)
    /\ UNCHANGED <<n_refs, pc, arg, ret, inCb, calls, aborted, held,
                   acquired, released, wasZero, zeroBy>>

(***************************************************************************)
(* c_ref_sub(ref, n, func, userdata)                                       *)
(***************************************************************************)
\* variants: the test for the last reference is n_refs >= n, or n_refs == 1
LastRef_ge(old, n) == old >= n
LastRef_one(old, n) == old = 1

\* if (n_refs == n): this call dropped the last references
LastRef(old, n) == old = n

\* variant: no test for a NULL counter
c_ref_sub_unchecked(t, ref, n, func, userdata) ==
    /\ ~aborted
    /\ pc[t] = "idle"
    /\ local' = [local EXCEPT ![t] = n_refs]
    /\ n_refs' = atomic_fetch_sub(n_refs, n)
    /\ arg' = [arg EXCEPT ![t] = [ref |-> ref, n |-> n, func |-> func,
                                  userdata |-> userdata]]
    /\ pc' = [pc EXCEPT ![t] = "sub_assert"]
    /\ held' = [held EXCEPT ![t] = Drop(@, n)]
    /\ released' = released + n
    /\ wasZero' = (wasZero \/ n_refs' = 0)
    /\ zeroBy' = IF n_refs' = 0
                 THEN Append(zeroBy, [by |-> t, func |-> func])
                 ELSE zeroBy
    /\ atomic_release(t)
    /\ UNCHANGED <<ret, inCb, calls, aborted, acquired>>

c_ref_sub(t, ref, n, func, userdata) ==
    /\ ~aborted
    /\ pc[t] = "idle"
    /\ IF ref = NullRef
       THEN /\ Return(t, "c_ref_sub", NullRef)
            /\ UNCHANGED <<n_refs, inCb, calls, aborted, held, acquired,
                           released, wasZero, zeroBy, memVars>>
       ELSE /\ local' = [local EXCEPT ![t] = n_refs]
            /\ n_refs' = atomic_fetch_sub(n_refs, n)
            /\ arg' = [arg EXCEPT ![t] = [ref |-> ref, n |-> n, func |-> func,
                                          userdata |-> userdata]]
            /\ pc' = [pc EXCEPT ![t] = "sub_assert"]
            /\ held' = [held EXCEPT ![t] = Drop(@, n)]
            /\ released' = released + n
            /\ wasZero' = (wasZero \/ n_refs' = 0)
            /\ zeroBy' = IF n_refs' = 0
                         THEN Append(zeroBy, [by |-> t, func |-> func])
                         ELSE zeroBy
            /\ atomic_release(t)
            /\ UNCHANGED <<ret, inCb, calls, aborted, acquired>>

\* variant: no assert(n_refs >= n)
c_ref_sub_assert_unasserted(t) ==
    /\ ~aborted
    /\ pc[t] = "sub_assert"
    /\ IF ~LastRef(local[t], arg[t].n)
       THEN /\ Return(t, "c_ref_sub", NullRef)
            /\ NoFence(t)
            /\ UNCHANGED <<n_refs, inCb, calls, aborted, held, acquired,
                           released, wasZero, zeroBy>>
       ELSE /\ atomic_thread_fence(t)
            /\ IF arg[t].func = NoFunc
               THEN /\ Return(t, "c_ref_sub", NullRef)
                    /\ UNCHANGED <<n_refs, inCb, calls, aborted, held,
                                   acquired, released, wasZero, zeroBy>>
               ELSE IF arg[t].func = Unreachable
               THEN /\ aborted' = TRUE                     \* assert(0)
                    /\ UNCHANGED <<n_refs, pc, local, arg, ret, inCb, calls,
                                   held, acquired, released, wasZero, zeroBy>>
               ELSE /\ calls' = Append(calls,
                                       [by |-> t, func |-> arg[t].func,
                                        ref |-> arg[t].ref,
                                        userdata |-> arg[t].userdata])
                    /\ inCb' = [inCb EXCEPT ![t] = TRUE]
                    /\ pc' = [pc EXCEPT ![t] = "idle"]
                    /\ local' = [local EXCEPT ![t] = 0]
                    /\ arg' = [arg EXCEPT ![t] = NoArg]
                    /\ UNCHANGED <<n_refs, ret, aborted, held, acquired,
                                   released, wasZero, zeroBy>>

\* variant: c_ref_unreachable returns (its assert(0) does nothing)
c_ref_sub_assert_reachable(t) ==
    /\ ~aborted
    /\ pc[t] = "sub_assert"
    /\ IF local[t] < arg[t].n
       THEN Abort
       ELSE IF ~LastRef(local[t], arg[t].n)
       THEN /\ Return(t, "c_ref_sub", NullRef)
            /\ NoFence(t)
            /\ UNCHANGED <<n_refs, inCb, calls, aborted, held, acquired,
                           released, wasZero, zeroBy>>
       ELSE /\ atomic_thread_fence(t)
            /\ IF arg[t].func = NoFunc
               THEN /\ Return(t, "c_ref_sub", NullRef)
                    /\ UNCHANGED <<n_refs, inCb, calls, aborted, held,
                                   acquired, released, wasZero, zeroBy>>
               ELSE /\ calls' = Append(calls,
                                       [by |-> t, func |-> arg[t].func,
                                        ref |-> arg[t].ref,
                                        userdata |-> arg[t].userdata])
                    /\ inCb' = [inCb EXCEPT ![t] = TRUE]
                    /\ pc' = [pc EXCEPT ![t] = "idle"]
                    /\ local' = [local EXCEPT ![t] = 0]
                    /\ arg' = [arg EXCEPT ![t] = NoArg]
                    /\ UNCHANGED <<n_refs, ret, aborted, held, acquired,
                                   released, wasZero, zeroBy>>

\* assert(n_refs >= n);
\* if (n_refs == n) { atomic_thread_fence(acquire); if (func) func(ref, userdata); }
c_ref_sub_assert(t) ==
    /\ ~aborted
    /\ pc[t] = "sub_assert"
    /\ IF local[t] < arg[t].n
       THEN Abort
       ELSE IF ~LastRef(local[t], arg[t].n)
       THEN /\ Return(t, "c_ref_sub", NullRef)
            /\ NoFence(t)
            /\ UNCHANGED <<n_refs, inCb, calls, aborted, held, acquired,
                           released, wasZero, zeroBy>>
       ELSE /\ atomic_thread_fence(t)
            /\ IF arg[t].func = NoFunc
               THEN /\ Return(t, "c_ref_sub", NullRef)
                    /\ UNCHANGED <<n_refs, inCb, calls, aborted, held,
                                   acquired, released, wasZero, zeroBy>>
               ELSE IF arg[t].func = Unreachable
               THEN /\ aborted' = TRUE                     \* assert(0)
                    /\ UNCHANGED <<n_refs, pc, local, arg, ret, inCb, calls,
                                   held, acquired, released, wasZero, zeroBy>>
               ELSE /\ calls' = Append(calls,
                                       [by |-> t, func |-> arg[t].func,
                                        ref |-> arg[t].ref,
                                        userdata |-> arg[t].userdata])
                    /\ inCb' = [inCb EXCEPT ![t] = TRUE]
                    /\ pc' = [pc EXCEPT ![t] = "idle"]
                    /\ local' = [local EXCEPT ![t] = 0]
                    /\ arg' = [arg EXCEPT ![t] = NoArg]
                    /\ UNCHANGED <<n_refs, ret, aborted, held, acquired,
                                   released, wasZero, zeroBy>>

\* the release function returns, and c_ref_sub returns NULL
c_ref_sub_return(t) ==
    /\ ~aborted
    /\ pc[t] = "idle"
    /\ inCb[t]
    /\ inCb' = [inCb EXCEPT ![t] = FALSE]
    /\ Return(t, "c_ref_sub", NullRef)
    /\ UNCHANGED <<n_refs, calls, aborted, held, acquired, released,
                   wasZero, zeroBy, memVars>>

(***************************************************************************)
(* CList / CListEntry.  Pointers to entries are 1..NumEntries, NULL is 0.  *)
(***************************************************************************)
NULL == 0
Lists == 1..NumLists
Entries == 1..NumEntries

VARIABLES
    first,       \* first[l]: CList.first
    last,        \* last[l]: CList.last
    prev,        \* prev[e]: CListEntry.prev
    next,        \* next[e]: CListEntry.next
    list_abort,  \* an assert() of c-list.h failed
    op,          \* the last call: function, list, entry, value returned
    pre,         \* the pointer fields as they were before the last call
    seq          \* seq[l]: the sequence the owner expects list l to hold

listVars == <<first, last, prev, next, list_abort, op, pre, seq>>

\* the pointer fields of all lists and entries, with the assertion flag
Heap == [first |-> first, last |-> last, prev |-> prev, next |-> next,
         abort |-> list_abort]

Fail(h) == [h EXCEPT !.abort = TRUE]

c_list_init(h, l) == [h EXCEPT !.first[l] = NULL, !.last[l] = NULL]
\* variant: an entry that is not linked holds NULL pointers
c_list_entry_init_null(h, e) ==
    IF e = NULL THEN h ELSE [h EXCEPT !.prev[e] = NULL, !.next[e] = NULL]

c_list_entry_init(h, e) ==
    IF e = NULL THEN h ELSE [h EXCEPT !.prev[e] = e, !.next[e] = e]

c_list_entry_is_linked(h, e) == e # NULL /\ h.prev[e] # e

\* variant: the former first entry's prev is not set
c_list_prepend_noback(h, l, e) ==
    IF c_list_entry_is_linked(h, e) THEN Fail(h)
    ELSE LET h1 == IF h.last[l] = NULL
                   THEN IF h.first[l] # NULL THEN Fail(h)
                        ELSE [h EXCEPT !.last[l] = e, !.next[e] = NULL]
                   ELSE IF h.first[l] = NULL THEN Fail(h)
                        ELSE [h EXCEPT !.next[e] = h.first[l]]
         IN  IF h1.abort THEN h1
             ELSE [h1 EXCEPT !.prev[e] = NULL, !.first[l] = e]

\* variant: no assert(!c_list_entry_is_linked(entry))
c_list_prepend_unchecked(h, l, e) ==
    LET h1 == IF h.last[l] = NULL
              THEN IF h.first[l] # NULL THEN Fail(h)
                   ELSE [h EXCEPT !.last[l] = e, !.next[e] = NULL]
              ELSE IF h.first[l] = NULL THEN Fail(h)
                   ELSE [h EXCEPT !.prev[h.first[l]] = e,
                                  !.next[e] = h.first[l]]
    IN  IF h1.abort THEN h1
        ELSE [h1 EXCEPT !.prev[e] = NULL, !.first[l] = e]

\* variant: list->last is set whether the list was empty or not
c_list_prepend_setlast(h, l, e) ==
    IF c_list_entry_is_linked(h, e) THEN Fail(h)
    ELSE LET h1 == IF h.last[l] = NULL
                   THEN IF h.first[l] # NULL THEN Fail(h)
                        ELSE [h EXCEPT !.last[l] = e, !.next[e] = NULL]
                   ELSE IF h.first[l] = NULL THEN Fail(h)
                        ELSE [h EXCEPT !.prev[h.first[l]] = e,
                                       !.next[e] = h.first[l],
                                       !.last[l] = e]
         IN  IF h1.abort THEN h1
             ELSE [h1 EXCEPT !.prev[e] = NULL, !.first[l] = e]

c_list_prepend(h, l, e) ==
    IF c_list_entry_is_linked(h, e) THEN Fail(h)
    ELSE LET h1 == IF h.last[l] = NULL
                   THEN IF h.first[l] # NULL THEN Fail(h)
                        ELSE [h EXCEPT !.last[l] = e, !.next[e] = NULL]
                   ELSE IF h.first[l] = NULL THEN Fail(h)
                        ELSE [h EXCEPT !.prev[h.first[l]] = e,
                                       !.next[e] = h.first[l]]
         IN  IF h1.abort THEN h1
             ELSE [h1 EXCEPT !.prev[e] = NULL, !.first[l] = e]

\* variant: the former last entry's next is not set
c_list_append_nolink(h, l, e) ==
    IF c_list_entry_is_linked(h, e) THEN Fail(h)
    ELSE LET h1 == IF h.first[l] = NULL
                   THEN IF h.last[l] # NULL THEN Fail(h)
                        ELSE [h EXCEPT !.first[l] = e, !.prev[e] = NULL]
                   ELSE IF h.last[l] = NULL THEN Fail(h)
                        ELSE [h EXCEPT !.prev[e] = h.last[l]]
         IN  IF h1.abort THEN h1
             ELSE [h1 EXCEPT !.next[e] = NULL, !.last[l] = e]

\* variant: the entry goes to the first list, whichever list was passed
c_list_append_wronglist(h, l, e) ==
    IF c_list_entry_is_linked(h, e) THEN Fail(h)
    ELSE LET k == 1
             h1 == IF h.first[k] = NULL
                   THEN IF h.last[k] # NULL THEN Fail(h)
                        ELSE [h EXCEPT !.first[k] = e, !.prev[e] = NULL]
                   ELSE IF h.last[k] = NULL THEN Fail(h)
                        ELSE [h EXCEPT !.next[h.last[k]] = e,
                                       !.prev[e] = h.last[k]]
         IN  IF h1.abort THEN h1
             ELSE [h1 EXCEPT !.next[e] = NULL, !.last[k] = e]

\* variant: the entry's prev is not set when the list was empty
c_list_append_keepprev(h, l, e) ==
    IF c_list_entry_is_linked(h, e) THEN Fail(h)
    ELSE LET h1 == IF h.first[l] = NULL
                   THEN IF h.last[l] # NULL THEN Fail(h)
                        ELSE [h EXCEPT !.first[l] = e]
                   ELSE IF h.last[l] = NULL THEN Fail(h)
                        ELSE [h EXCEPT !.next[h.last[l]] = e,
                                       !.prev[e] = h.last[l]]
         IN  IF h1.abort THEN h1
             ELSE [h1 EXCEPT !.next[e] = NULL, !.last[l] = e]

c_list_append(h, l, e) ==
    IF c_list_entry_is_linked(h, e) THEN Fail(h)
    ELSE LET h1 == IF h.first[l] = NULL
                   THEN IF h.last[l] # NULL THEN Fail(h)
                        ELSE [h EXCEPT !.first[l] = e, !.prev[e] = NULL]
                   ELSE IF h.last[l] = NULL THEN Fail(h)
                        ELSE [h EXCEPT !.next[h.last[l]] = e,
                                       !.prev[e] = h.last[l]]
         IN  IF h1.abort THEN h1
             ELSE [h1 EXCEPT !.next[e] = NULL, !.last[l] = e]

\* assert(!list->first == !list->last)
EndsAgree(h, l) == (h.first[l] = NULL) <=> (h.last[l] = NULL)

c_list_first(h, l) == h.first[l]
c_list_last(h, l) == h.last[l]

c_list_entry_prev(h, e) ==
    IF c_list_entry_is_linked(h, e) THEN h.prev[e] ELSE NULL

\* variant: the next field is returned without the test for a linked entry
c_list_entry_next_raw(h, e) == h.next[e]

c_list_entry_next(h, e) ==
    IF c_list_entry_is_linked(h, e) THEN h.next[e] ELSE NULL

\* variant: the entry before the removed one keeps pointing to it
UnlinkPrev_nojoin(h, l, e) ==
    IF h.first[l] = e
    THEN IF h.prev[e] # NULL THEN Fail(h)
         ELSE [h EXCEPT !.first[l] = h.next[e]]
    ELSE IF h.prev[e] = NULL THEN Fail(h)
         ELSE h

\* c_list_remove, the part that detaches the entry from what precedes it
UnlinkPrev(h, l, e) ==
    IF h.first[l] = e
    THEN IF h.prev[e] # NULL THEN Fail(h)
         ELSE [h EXCEPT !.first[l] = h.next[e]]
    ELSE IF h.prev[e] = NULL THEN Fail(h)
         ELSE [h EXCEPT !.next[h.prev[e]] = h.next[e]]

\* variant: list->last is left alone when the last entry goes
UnlinkNext_keeplast(h, l, e) ==
    IF h.last[l] = e
    THEN IF h.next[e] # NULL THEN Fail(h) ELSE h
    ELSE IF h.next[e] = NULL THEN Fail(h)
         ELSE [h EXCEPT !.prev[h.next[e]] = h.prev[e]]

\* variant: the entry after the removed one keeps pointing to it
UnlinkNext_nojoin(h, l, e) ==
    IF h.last[l] = e
    THEN IF h.next[e] # NULL THEN Fail(h)
         ELSE [h EXCEPT !.last[l] = h.prev[e]]
    ELSE IF h.next[e] = NULL THEN Fail(h)
         ELSE h

\* c_list_remove, the part that detaches the entry from what follows it
UnlinkNext(h, l, e) ==
    IF h.last[l] = e
    THEN IF h.next[e] # NULL THEN Fail(h)
         ELSE [h EXCEPT !.last[l] = h.prev[e]]
    ELSE IF h.next[e] = NULL THEN Fail(h)
         ELSE [h EXCEPT !.prev[h.next[e]] = h.prev[e]]

\* variant: the entry is not reset with c_list_entry_init
Unlink_noinit(h, l, e) ==
    IF ~(h.first[l] # NULL /\ h.last[l] # NULL) THEN Fail(h)
    ELSE LET h1 == UnlinkPrev(h, l, e)
         IN  IF h1.abort THEN h1 ELSE UnlinkNext(h1, l, e)

\* c_list_remove once the entry is known to be linked
Unlink(h, l, e) ==
    IF ~(h.first[l] # NULL /\ h.last[l] # NULL) THEN Fail(h)
    ELSE LET h1 == UnlinkPrev(h, l, e)
             h2 == IF h1.abort THEN h1 ELSE UnlinkNext(h1, l, e)
         IN  IF h2.abort THEN h2 ELSE c_list_entry_init(h2, e)

\* variant: no early return for an entry that is not linked
c_list_remove_unguarded(h, l, e) == Unlink(h, l, e)

c_list_remove(h, l, e) ==
    IF ~c_list_entry_is_linked(h, e) THEN h ELSE Unlink(h, l, e)

\* c_list_init on every list, c_list_entry_init on every entry
InitList ==
    /\ first = [l \in Lists |-> NULL]
    /\ last = [l \in Lists |-> NULL]
    /\ prev = [e \in Entries |-> e]
    /\ next = [e \in Entries |-> e]
    /\ list_abort = FALSE
    /\ op = [fn |-> "init", list |-> NULL, entry |-> NULL, res |-> NULL]
    /\ pre = [first |-> first, last |-> last, prev |-> prev, next |-> next,
              abort |-> FALSE]
    /\ seq = [l \in Lists |-> <<>>]

\* the fields become those of h; the call is noted with the fields before it
Store(h, fn, l, e, r) ==
    /\ first' = h.first
    /\ last' = h.last
    /\ prev' = h.prev
    /\ next' = h.next
    /\ list_abort' = h.abort
    /\ op' = [fn |-> fn, list |-> l, entry |-> e, res |-> r]
    /\ pre' = Heap

(***************************************************************************)
(* c_div_round_up and the bitmap helpers.  A bitmap is an array of         *)
(* uint8_t, indexed from 0; the bitwise operators of C are computed bit by *)
(* bit on the operands' representation in INT_BITS bits.                   *)
(***************************************************************************)
UINT_MOD == 2^UINT_BITS
UInts == 0..(UINT_MOD - 1)

\* the usual alternative, which wraps: (((_x) + (_y) - 1) / (_y))
TEST_ALT_DIV(x, y) == ((((x + y) % UINT_MOD) + UINT_MOD - 1) % UINT_MOD) \div y

\* ((_x) / (_y) + !!((_x) % (_y)))
c_div_round_up(x, y) ==
    ((x \div y) + (IF x % y # 0 THEN 1 ELSE 0)) % UINT_MOD

RECURSIVE BitAnd(_, _, _)
BitAnd(a, b, w) ==
    IF w = 0 THEN 0
    ELSE (a % 2) * (b % 2) + 2 * BitAnd(a \div 2, b \div 2, w - 1)

RECURSIVE BitOr(_, _, _)
BitOr(a, b, w) ==
    IF w = 0 THEN 0
    ELSE (IF a % 2 = 1 \/ b % 2 = 1 THEN 1 ELSE 0)
         + 2 * BitOr(a \div 2, b \div 2, w - 1)

RECURSIVE BitXor(_, _, _)
BitXor(a, b, w) ==
    IF w = 0 THEN 0
    ELSE ((a + b) % 2) + 2 * BitXor(a \div 2, b \div 2, w - 1)

BitNot(a, w) == 2^w - 1 - a                     \* ~a
Shl(a, k, w) == (a * 2^k) % 2^w                 \* a << k
uint8_t(v) == v % 2^8                           \* conversion to uint8_t

NumBytes == c_div_round_up(NumBits, 8)
Bytes == 0..(NumBytes - 1)
Bits == 0..(NumBits - 1)                        \* the indices a caller passes
AllBits == 0..(NumBytes * 8 - 1)                \* every bit of the array

VARIABLES
    bitmap,      \* bitmap[k]: byte k of the bitmap
    bit_op,      \* the last call on the bitmap: function, bit, value returned
    bit_pre,     \* the bitmap before the last call
    div          \* the last c_div_round_up: operands and quotient

utilVars == <<bitmap, bit_op, bit_pre, div>>

memset(b, c, n) == [k \in DOMAIN b |-> IF k < n THEN uint8_t(c) ELSE b[k]]

c_bitmap_test(b, bit) ==
    BitAnd(b[bit \div 8], Shl(1, bit % 8, INT_BITS), INT_BITS) # 0

c_bitmap_set(b, bit) ==
    [b EXCEPT ![bit \div 8] =
        uint8_t(BitOr(@, Shl(1, bit % 8, INT_BITS), INT_BITS))]

\* variant: the bit is flipped
c_bitmap_clear_flip(b, bit) ==
    [b EXCEPT ![bit \div 8] =
        uint8_t(BitXor(@, Shl(1, bit % 8, INT_BITS), INT_BITS))]

c_bitmap_clear(b, bit) ==
    [b EXCEPT ![bit \div 8] =
        uint8_t(BitAnd(@, BitNot(Shl(1, bit % 8, INT_BITS), INT_BITS),
                       INT_BITS))]

c_bitmap_set_all(b, n_bits) == memset(b, 255, c_div_round_up(n_bits, 8))
c_bitmap_clear_all(b, n_bits) == memset(b, 0, c_div_round_up(n_bits, 8))

\* no quotient yet
NoQuot == -1

\* the bitmap after c_bitmap_clear_all
InitBitmap ==
    /\ bitmap = [k \in Bytes |-> 0]
    /\ bit_op = [fn |-> "clear_all", bit |-> 0, res |-> FALSE]
    /\ bit_pre = [k \in Bytes |-> 0]

InitUtil ==
    /\ InitBitmap
    /\ div = [x |-> 0, y |-> 1, q |-> NoQuot]

BitStore(b, fn, bit, r) ==
    /\ bitmap' = b
    /\ bit_op' = [fn |-> fn, bit |-> bit, res |-> r]
    /\ bit_pre' = bitmap
    /\ UNCHANGED div

DoBitTest(i) == BitStore(bitmap, "test", i, c_bitmap_test(bitmap, i))
DoBitSet(i) == BitStore(c_bitmap_set(bitmap, i), "set", i, FALSE)
DoBitClear(i) == BitStore(c_bitmap_clear(bitmap, i), "clear", i, FALSE)
DoBitSetAll == BitStore(c_bitmap_set_all(bitmap, NumBits), "set_all", 0, FALSE)
DoBitClearAll ==
    BitStore(c_bitmap_clear_all(bitmap, NumBits), "clear_all", 0, FALSE)

NextBitmap ==
    \/ \E i \in Bits : DoBitTest(i) /\ UNCHANGED <<refVars, listVars>>
    \/ \E i \in Bits : DoBitSet(i) /\ UNCHANGED <<refVars, listVars>>
    \/ \E i \in Bits : DoBitClear(i) /\ UNCHANGED <<refVars, listVars>>
    \/ DoBitSetAll /\ UNCHANGED <<refVars, listVars>>
    \/ DoBitClearAll /\ UNCHANGED <<refVars, listVars>>

\* the operands: any two values of the width, the divisor above 0
Operands ==
    /\ InitBitmap
    /\ \E x \in UInts, y \in UInts \ {0} :
           div = [x |-> x, y |-> y, q |-> NoQuot]

\* q = c_div_round_up(x, y)
DoDivRoundUp ==
    /\ div.q = NoQuot
    /\ div' = [div EXCEPT !.q = c_div_round_up(div.x, div.y)]
    /\ UNCHANGED <<bitmap, bit_op, bit_pre>>

NextDiv ==
    \/ DoDivRoundUp /\ UNCHANGED <<refVars, listVars>>

(***************************************************************************)
(* The owner's view: the sequence each list is expected to hold.           *)
(***************************************************************************)
Elems(s) == {s[i] : i \in 1..Len(s)}
Without(s, e) == SelectSeq(s, LAMBDA x : x # e)
Unused(e) == \A l \in Lists : e \notin Elems(seq[l])

(***************************************************************************)
(* The owner of SpecList: inserts entries that are in no list, removes     *)
(* from a list entries that are in that list or in none, and queries.      *)
(***************************************************************************)
DoPrepend(l, e) ==
    /\ ~list_abort
    /\ Unused(e)
    /\ Store(c_list_prepend(Heap, l, e), "prepend", l, e, NULL)
    /\ seq' = [seq EXCEPT ![l] = <<e>> \o @]

DoAppend(l, e) ==
    /\ ~list_abort
    /\ Unused(e)
    /\ Store(c_list_append(Heap, l, e), "append", l, e, NULL)
    /\ seq' = [seq EXCEPT ![l] = Append(@, e)]

DoRemove(l, e) ==
    /\ ~list_abort
    /\ Unused(e) \/ e \in Elems(seq[l])
    /\ Store(c_list_remove(Heap, l, e), "remove", l, e, NULL)
    /\ seq' = [seq EXCEPT ![l] = Without(@, e)]

DoFirst(l) ==
    /\ ~list_abort
    /\ Store(IF EndsAgree(Heap, l) THEN Heap ELSE Fail(Heap),
             "first", l, NULL, c_list_first(Heap, l))
    /\ UNCHANGED seq

DoLast(l) ==
    /\ ~list_abort
    /\ Store(IF EndsAgree(Heap, l) THEN Heap ELSE Fail(Heap),
             "last", l, NULL, c_list_last(Heap, l))
    /\ UNCHANGED seq

DoEntryPrev(e) ==
    /\ ~list_abort
    /\ Store(Heap, "entry_prev", NULL, e, c_list_entry_prev(Heap, e))
    /\ UNCHANGED seq

DoEntryNext(e) ==
    /\ ~list_abort
    /\ Store(Heap, "entry_next", NULL, e, c_list_entry_next(Heap, e))
    /\ UNCHANGED seq

NextList ==
    \/ \E l \in Lists, e \in Entries : DoPrepend(l, e) /\ UNCHANGED <<utilVars, refVars>>
    \/ \E l \in Lists, e \in Entries : DoAppend(l, e) /\ UNCHANGED <<utilVars, refVars>>
    \/ \E l \in Lists, e \in Entries : DoRemove(l, e) /\ UNCHANGED <<utilVars, refVars>>
    \/ \E l \in Lists : DoFirst(l) /\ UNCHANGED <<utilVars, refVars>>
    \/ \E l \in Lists : DoLast(l) /\ UNCHANGED <<utilVars, refVars>>
    \/ \E e \in Entries : DoEntryPrev(e) /\ UNCHANGED <<utilVars, refVars>>
    \/ \E e \in Entries : DoEntryNext(e) /\ UNCHANGED <<utilVars, refVars>>

(***************************************************************************)
(* The owner of SpecListAny: inserts any entry into any list, whether the  *)
(* entry is in a list already or not, and removes any entry from any list, *)
(* whether the entry is in that list or in another; a call that fails an   *)
(* assertion leaves the owner's expected sequences as they were.           *)
(***************************************************************************)
AnyPrepend(l, e) ==
    /\ ~list_abort
    /\ Store(c_list_prepend(Heap, l, e), "prepend", l, e, NULL)
    /\ seq' = IF c_list_prepend(Heap, l, e).abort THEN seq
              ELSE [seq EXCEPT ![l] = <<e>> \o @]

AnyAppend(l, e) ==
    /\ ~list_abort
    /\ Store(c_list_append(Heap, l, e), "append", l, e, NULL)
    /\ seq' = IF c_list_append(Heap, l, e).abort THEN seq
              ELSE [seq EXCEPT ![l] = Append(@, e)]

\* c_list_remove of any entry from any list; an entry that the call unlinks
\* is in no list afterwards
AnyRemove(l, e) ==
    /\ ~list_abort
    /\ Store(c_list_remove(Heap, l, e), "remove", l, e, NULL)
    /\ seq' = IF c_list_remove(Heap, l, e).abort THEN seq
              ELSE [k \in Lists |-> Without(seq[k], e)]

NextListAny ==
    \/ \E l \in Lists, e \in Entries : AnyPrepend(l, e) /\ UNCHANGED <<utilVars, refVars>>
    \/ \E l \in Lists, e \in Entries : AnyAppend(l, e) /\ UNCHANGED <<utilVars, refVars>>
    \/ \E l \in Lists, e \in Entries : AnyRemove(l, e) /\ UNCHANGED <<utilVars, refVars>>
    \/ \E e \in Entries : DoEntryPrev(e) /\ UNCHANGED <<utilVars, refVars>>
    \/ \E e \in Entries : DoEntryNext(e) /\ UNCHANGED <<utilVars, refVars>>

(***************************************************************************)
(* The callers of SpecRef: threads sharing the counter.  The creator owns   *)
(* the first reference; a thread acquires with c_ref_add only while it     *)
(* owns a reference and releases only references it owns.                  *)
(* c_ref_add_unless_zero is called freely, by threads that own nothing and *)
(* from inside a release function too.                                     *)
(***************************************************************************)
Retain ==
    \E t \in Threads, n \in Counts :
        /\ held[t] >= 1
        /\ acquired + n <= MaxAcquire
        /\ c_ref_add(t, TheRef, n)

RetainIfAlive ==
    \E t \in Threads, n \in Counts :
        /\ acquired + n <= MaxAcquire
        /\ c_ref_add_unless_zero(t, TheRef, n)

Release ==
    \E t \in Threads, n \in Counts, f \in {NoFunc, UserFunc} :
        /\ held[t] >= n
        /\ c_ref_sub(t, TheRef, n, f, IF f = NoFunc THEN NoData ELSE "0xdeadbeef")

NextRef ==
    \/ Retain /\ UNCHANGED <<utilVars, listVars, histVars>>
    \/ RetainIfAlive /\ UNCHANGED <<utilVars, listVars, histVars>>
    \/ Release /\ UNCHANGED <<utilVars, listVars, histVars>>
    \/ \E t \in Threads : c_ref_add_unless_zero_fail(t) /\ UNCHANGED <<utilVars, listVars, histVars>>
    \/ \E t \in Threads : c_ref_add_unless_zero_swap(t) /\ UNCHANGED <<utilVars, listVars, histVars>>
    \/ \E t \in Threads : c_ref_add_unless_zero_retry(t) /\ UNCHANGED <<utilVars, listVars, histVars>>
    \/ \E t \in Threads : c_ref_sub_assert(t) /\ UNCHANGED <<utilVars, listVars, histVars>>
    \/ \E t \in Threads : c_ref_sub_return(t) /\ UNCHANGED <<utilVars, listVars, histVars>>

(***************************************************************************)
(* The callers of SpecMem: threads that acquire and release one reference  *)
(* at a time, with c_ref_inc, c_ref_inc_unless_zero and c_ref_dec, and     *)
(* write to the object that owns the counter while they own a reference.   *)
(***************************************************************************)
c_ref_inc(t, ref) == c_ref_add(t, ref, 1)
c_ref_inc_unless_zero(t, ref) == c_ref_add_unless_zero(t, ref, 1)
c_ref_dec(t, ref, func, userdata) == c_ref_sub(t, ref, 1, func, userdata)

MemRetain ==
    \E t \in Threads :
        /\ held[t] >= 1
        /\ acquired + 1 <= MaxAcquire
        /\ c_ref_inc(t, TheRef)

MemRetainIfAlive ==
    \E t \in Threads :
        /\ acquired + 1 <= MaxAcquire
        /\ c_ref_inc_unless_zero(t, TheRef)

MemRelease ==
    \E t \in Threads :
        /\ held[t] >= 1
        /\ c_ref_dec(t, TheRef, UserFunc, "0xdeadbeef")

RECURSIVE SumOf(_, _)
SumOf(f, k) == IF k = 0 THEN 0 ELSE f[k] + SumOf(f, k - 1)

WriteObject(t) ==
    /\ ~aborted
    /\ pc[t] = "idle"
    /\ held[t] >= 1
    /\ SumOf(writes, NumThreads) < MaxWrites
    /\ writes' = [writes EXCEPT ![t] = @ + 1]
    /\ seen' = [seen EXCEPT ![t][t] = @ + 1]
    /\ UNCHANGED <<n_refs, pc, local, arg, ret, inCb, calls, aborted, held,
                   acquired, released, wasZero, zeroBy, pub, got>>

NextMem ==
    \/ MemRetain /\ UNCHANGED <<utilVars, listVars, histVars>>
    \/ MemRetainIfAlive /\ UNCHANGED <<utilVars, listVars, histVars>>
    \/ MemRelease /\ UNCHANGED <<utilVars, listVars, histVars>>
    \/ \E t \in Threads : c_ref_add_unless_zero_fail(t) /\ UNCHANGED <<utilVars, listVars, histVars>>
    \/ \E t \in Threads : c_ref_add_unless_zero_swap(t) /\ UNCHANGED <<utilVars, listVars, histVars>>
    \/ \E t \in Threads : c_ref_add_unless_zero_retry(t) /\ UNCHANGED <<utilVars, listVars, histVars>>
    \/ \E t \in Threads : c_ref_sub_assert(t) /\ UNCHANGED <<utilVars, listVars, histVars>>
    \/ \E t \in Threads : c_ref_sub_return(t) /\ UNCHANGED <<utilVars, listVars, histVars>>
    \/ \E t \in Threads : WriteObject(t) /\ UNCHANGED <<utilVars, listVars, histVars>>

(***************************************************************************)
(* SpecFair: the threads of SpecMem, without the writes, under a fair      *)
(* scheduler: a thread inside a call goes on.  A failed compare-exchange   *)
(* is told apart: the counter differed from the expected value, or it did  *)
(* not (atomic_compare_exchange_weak may fail spuriously); no fairness is  *)
(* asked of spurious failures, and at most MaxSpurious of them happen.     *)
(***************************************************************************)
Retry(t) ==
    /\ n_refs # local[t]
    /\ c_ref_add_unless_zero_retry(t)
    /\ UNCHANGED spurious

SpuriousRetry(t) ==
    /\ n_refs = local[t]
    /\ spurious < MaxSpurious
    /\ c_ref_add_unless_zero_retry(t)
    /\ spurious' = spurious + 1

NextFair ==
    \/ MemRetain /\ UNCHANGED <<utilVars, listVars, histVars>>
    \/ MemRetainIfAlive /\ UNCHANGED <<utilVars, listVars, histVars>>
    \/ MemRelease /\ UNCHANGED <<utilVars, listVars, histVars>>
    \/ \E t \in Threads : c_ref_add_unless_zero_fail(t) /\ UNCHANGED <<utilVars, listVars, histVars>>
    \/ \E t \in Threads : c_ref_add_unless_zero_swap(t) /\ UNCHANGED <<utilVars, listVars, histVars>>
    \/ \E t \in Threads : Retry(t) /\ UNCHANGED <<utilVars, listVars, trace>>
    \/ \E t \in Threads : SpuriousRetry(t) /\ UNCHANGED <<utilVars, listVars, trace>>
    \/ \E t \in Threads : c_ref_sub_assert(t) /\ UNCHANGED <<utilVars, listVars, histVars>>
    \/ \E t \in Threads : c_ref_sub_return(t) /\ UNCHANGED <<utilVars, listVars, histVars>>

\* the steps thread t takes inside a call, spurious failures apart
ThreadStep(t) ==
    \/ c_ref_add_unless_zero_fail(t) /\ UNCHANGED <<utilVars, listVars, histVars>>
    \/ c_ref_add_unless_zero_swap(t) /\ UNCHANGED <<utilVars, listVars, histVars>>
    \/ Retry(t) /\ UNCHANGED <<utilVars, listVars, trace>>
    \/ c_ref_sub_assert(t) /\ UNCHANGED <<utilVars, listVars, histVars>>
    \/ c_ref_sub_return(t) /\ UNCHANGED <<utilVars, listVars, histVars>>

(***************************************************************************)
(* The caller of SpecSeq: one thread (the creator) making one call after   *)
(* the other, as test_ref does, with every argument the interface takes: a *)
(* NULL counter, any release function, any userdata.  It passes            *)
(* c_ref_unreachable only when it keeps a reference after the call.        *)
(***************************************************************************)
SeqRetain ==
    \E r \in RefPtrs, n \in Counts :
        /\ held[1] >= 1
        /\ acquired + n <= MaxAcquire
        /\ c_ref_add(1, r, n)

SeqRetainIfAlive ==
    \E r \in RefPtrs, n \in Counts :
        /\ acquired + n <= MaxAcquire
        /\ c_ref_add_unless_zero(1, r, n)

SeqRelease ==
    \E r \in RefPtrs, n \in Counts, f \in Funcs, u \in UserData :
        /\ held[1] >= n
        /\ f = Unreachable => held[1] > n
        /\ c_ref_sub(1, r, n, f, u)

NextSeq ==
    \/ SeqRetain /\ UNCHANGED <<utilVars, listVars, histVars>>
    \/ SeqRetainIfAlive /\ UNCHANGED <<utilVars, listVars, histVars>>
    \/ SeqRelease /\ UNCHANGED <<utilVars, listVars, histVars>>
    \/ c_ref_add_unless_zero_fail(1) /\ UNCHANGED <<utilVars, listVars, histVars>>
    \/ c_ref_add_unless_zero_swap(1) /\ UNCHANGED <<utilVars, listVars, histVars>>
    \/ c_ref_add_unless_zero_retry(1) /\ UNCHANGED <<utilVars, listVars, histVars>>
    \/ c_ref_sub_assert(1) /\ UNCHANGED <<utilVars, listVars, histVars>>
    \/ c_ref_sub_return(1) /\ UNCHANGED <<utilVars, listVars, histVars>>

(***************************************************************************)
(* The caller of SpecRefAny: one thread that keeps no contract.  It passes *)
(* any count, 0 included, acquires from a counter that is 0, releases more *)
(* than the counter holds, and passes c_ref_unreachable to any release.    *)
(* It stops releasing once MaxZero calls of c_ref_sub have stored 0.       *)
(***************************************************************************)
AnyCounts == 0..MaxN

AnyRetain ==
    \E r \in RefPtrs, n \in AnyCounts :
        /\ acquired + n <= MaxAcquire
        /\ c_ref_add(1, r, n)

AnyRetainIfAlive ==
    \E r \in RefPtrs, n \in AnyCounts :
        /\ acquired + n <= MaxAcquire
        /\ c_ref_add_unless_zero(1, r, n)

AnyRelease ==
    \E r \in RefPtrs, n \in AnyCounts, f \in Funcs, u \in UserData :
        /\ Len(zeroBy) < MaxZero
        /\ c_ref_sub(1, r, n, f, u)

NextRefAny ==
    \/ AnyRetain /\ UNCHANGED <<utilVars, listVars, histVars>>
    \/ AnyRetainIfAlive /\ UNCHANGED <<utilVars, listVars, histVars>>
    \/ AnyRelease /\ UNCHANGED <<utilVars, listVars, histVars>>
    \/ c_ref_add_unless_zero_fail(1) /\ UNCHANGED <<utilVars, listVars, histVars>>
    \/ c_ref_add_unless_zero_swap(1) /\ UNCHANGED <<utilVars, listVars, histVars>>
    \/ c_ref_add_unless_zero_retry(1) /\ UNCHANGED <<utilVars, listVars, histVars>>
    \/ c_ref_sub_assert(1) /\ UNCHANGED <<utilVars, listVars, histVars>>
    \/ c_ref_sub_return(1) /\ UNCHANGED <<utilVars, listVars, histVars>>

(***************************************************************************)
(* The caller of SpecTrace: one thread making up to MaxTrace calls of      *)
(* c_ref_add and c_ref_sub with the counts of test_ref, and noting each    *)
(* call with the counter's value after it and the number of release        *)
(* function invocations before it.  It releases what it owns, with a       *)
(* release function that does nothing, one that records its invocation, or *)
(* c_ref_unreachable.                                                      *)
(***************************************************************************)
TraceCounts == {1, 13, 14}
NoopFunc == "noop_fn"
TraceFuncs == {NoopFunc, Unreachable, UserFunc}

TraceRetain ==
    \E n \in TraceCounts :
        /\ Len(trace) < MaxTrace
        /\ held[1] >= 1
        /\ c_ref_add(1, TheRef, n)
        /\ trace' = Append(trace, [fn |-> "c_ref_add", n |-> n,
                                   func |-> NoFunc, value |-> n_refs',
                                   before |-> Len(calls)])

TraceRelease ==
    \E n \in TraceCounts, f \in TraceFuncs :
        /\ Len(trace) < MaxTrace
        /\ held[1] >= n
        /\ c_ref_sub(1, TheRef, n, f, NoData)
        /\ trace' = Append(trace, [fn |-> "c_ref_sub", n |-> n,
                                   func |-> f, value |-> n_refs',
                                   before |-> Len(calls)])

NextTrace ==
    \/ TraceRetain /\ UNCHANGED <<utilVars, listVars, spurious>>
    \/ TraceRelease /\ UNCHANGED <<utilVars, listVars, spurious>>
    \/ c_ref_sub_assert(1) /\ UNCHANGED <<utilVars, listVars, histVars>>
    \/ c_ref_sub_return(1) /\ UNCHANGED <<utilVars, listVars, histVars>>

(***************************************************************************)
(* The caller of SpecNull: one thread that passes the counter or NULL to   *)
(* every function and notes its last call, with the counter's value after  *)
(* the call's first access.  With the counter it keeps the contract; with  *)
(* NULL it passes any count above 0, any release function and any          *)
(* userdata.                                                               *)
(***************************************************************************)
Noted(fn, r, n, f, v) ==
    <<[fn |-> fn, ref |-> r, n |-> n, func |-> f, value |-> v]>>

NullRetain ==
    \E r \in RefPtrs, n \in Counts :
        /\ r = TheRef => held[1] >= 1 /\ acquired + n <= MaxAcquire
        /\ c_ref_add(1, r, n)
        /\ trace' = Noted("c_ref_add", r, n, NoFunc, n_refs')

NullRetainIfAlive ==
    \E r \in RefPtrs, n \in Counts :
        /\ r = TheRef => acquired + n <= MaxAcquire
        /\ c_ref_add_unless_zero(1, r, n)
        /\ trace' = Noted("c_ref_add_unless_zero", r, n, NoFunc, n_refs')

NullRelease ==
    \E r \in RefPtrs, n \in Counts, f \in Funcs, u \in UserData :
        /\ r = TheRef => held[1] >= n /\ f # Unreachable
        /\ c_ref_sub(1, r, n, f, u)
        /\ trace' = Noted("c_ref_sub", r, n, f, n_refs')

NextNull ==
    \/ NullRetain /\ UNCHANGED <<utilVars, listVars, spurious>>
    \/ NullRetainIfAlive /\ UNCHANGED <<utilVars, listVars, spurious>>
    \/ NullRelease /\ UNCHANGED <<utilVars, listVars, spurious>>
    \/ c_ref_add_unless_zero_fail(1) /\ UNCHANGED <<utilVars, listVars, histVars>>
    \/ c_ref_add_unless_zero_swap(1) /\ UNCHANGED <<utilVars, listVars, histVars>>
    \/ c_ref_add_unless_zero_retry(1) /\ UNCHANGED <<utilVars, listVars, histVars>>
    \/ c_ref_sub_assert(1) /\ UNCHANGED <<utilVars, listVars, histVars>>
    \/ c_ref_sub_return(1) /\ UNCHANGED <<utilVars, listVars, histVars>>

(***************************************************************************)
(* The specifications.  Each leaves the other component's state as it is.  *)
(***************************************************************************)
vars == <<refVars, listVars, utilVars>>

Init == InitRef /\ InitList /\ InitUtil

SpecRef == Init /\ [][NextRef]_vars
SpecSeq == Init /\ [][NextSeq]_vars
SpecRefAny == Init /\ [][NextRefAny]_vars
SpecMem == Init /\ [][NextMem]_vars
SpecTrace == Init /\ [][NextTrace]_vars
SpecNull == Init /\ [][NextNull]_vars
SpecFair ==
    Init /\ [][NextFair]_vars /\ \A t \in Threads : WF_vars(ThreadStep(t))
SpecList == Init /\ [][NextList]_vars
SpecListAny == Init /\ [][NextListAny]_vars
SpecBitmap == Init /\ [][NextBitmap]_vars

InitDiv == InitRef /\ InitList /\ Operands

SpecDiv == InitDiv /\ [][NextDiv]_vars

(***************************************************************************)
(* Properties of CRef.                                                     *)
(***************************************************************************)
Total == C_REF_INIT + acquired - released
AllReleased == \A t \in Threads : held[t] = 0
SubsDone == \A t \in Threads : pc[t] # "sub_assert"

\* C1: whatever the interleaving, at most one c_ref_sub stores 0 and the
\* release function is invoked at most once, by that call; and when every
\* reference has been released and every c_ref_sub has got past its test,
\* exactly one call has stored 0 and, if it was given a release function,
\* that function has been invoked exactly once.
C1_SingleCallback ==
    /\ Len(zeroBy) <= 1
    /\ Len(calls) <= Len(zeroBy)
    /\ \A i \in 1..Len(calls) :
           /\ calls[i].by = zeroBy[i].by
           /\ calls[i].func = zeroBy[i].func
           /\ n_refs = 0
    /\ (AllReleased /\ SubsDone) =>
           /\ Len(zeroBy) = 1
           /\ zeroBy[1].func # NoFunc => Len(calls) = 1

\* a thread other than the creator made the last release, after references
\* had been acquired, and the release function ran
C1_Witness ==
    /\ AllReleased /\ SubsDone
    /\ acquired >= 2
    /\ Len(calls) = 1
    /\ calls[1].by # 1

\* C2: the counter starts at 1 and after every call of one caller it equals
\* 1 + (references acquired) - (references released); the release function
\* has run if and only if that total has reached 0 (and one was supplied).
C2_RetainReleaseSymmetry ==
    /\ (acquired = 0 /\ released = 0) => n_refs = 1
    /\ n_refs = Total
    /\ calls # <<>> => Total = 0
    /\ (Total = 0 /\ SubsDone) =>
           /\ Len(zeroBy) = 1
           /\ Len(calls) = (IF zeroBy[1].func = NoFunc THEN 0 ELSE 1)

\* references were acquired two at once and the total came back to 0
C2_Witness ==
    /\ acquired >= 2
    /\ released = acquired + 1
    /\ SubsDone
    /\ Len(calls) = 1

\* C3: once the counter has been 0 no step changes it, and every
\* c_ref_add_unless_zero that completes returns NULL.
C3_AddUnlessZeroAfterZero ==
    [][wasZero =>
          /\ n_refs' = 0
          /\ \A t \in Threads :
                 (pc[t] = "cmpxchg" /\ pc'[t] = "idle") =>
                     /\ ret' = [by |-> t, fn |-> "c_ref_add_unless_zero",
                                val |-> NullRef]
                     /\ held'[t] = held[t]]_vars

\* c_ref_add_unless_zero has failed inside the release function
C3_Witness ==
    \E t \in Threads :
        /\ inCb[t]
        /\ wasZero
        /\ ret = [by |-> t, fn |-> "c_ref_add_unless_zero", val |-> NullRef]

\* C4: a c_ref_add_unless_zero racing with the last releases either succeeds,
\* then it saw a counter that had never been 0 and added exactly n to it, or
\* fails and leaves the counter as it is; the release function runs at most
\* once and only while nobody owns a reference.
C4_Step(t) ==
    (pc[t] = "cmpxchg" /\ pc'[t] = "idle") =>
        IF ret'.val = TheRef
        THEN /\ ~wasZero /\ n_refs # 0
             /\ n_refs' = n_refs + arg[t].n
             /\ calls = <<>> /\ calls' = <<>>
        ELSE /\ n_refs' = n_refs
             /\ calls' = calls

C4_AddUnlessZeroRace ==
    [][/\ \A t \in Threads : C4_Step(t)
       /\ Len(calls') <= 1
       /\ calls' # <<>> => \A t \in Threads : held'[t] = 0]_vars

\* a thread owning nothing read a counter that was not 0, and the counter
\* dropped to 0 before its compare-and-swap
C4_Witness ==
    \E t \in Threads :
        /\ pc[t] = "cmpxchg"
        /\ held[t] = 0
        /\ local[t] # 0
        /\ n_refs = 0

\* C5: the step of c_ref_sub after the subtraction invokes the release
\* function if and only if the value the subtraction read equals n and a
\* function was given; the function gets the counter's address and the
\* caller's userdata; without a function the counter is 0 all the same and
\* nothing is invoked.
C5_Step(t) ==
    (pc[t] = "sub_assert" /\ pc'[t] # "sub_assert") =>
        IF local[t] = arg[t].n
        THEN /\ n_refs = 0
             /\ IF arg[t].func = NoFunc
                THEN calls' = calls /\ ~inCb'[t]
                ELSE /\ calls' = Append(calls, [by |-> t, func |-> arg[t].func,
                                                ref |-> TheRef,
                                                userdata |-> arg[t].userdata])
                     /\ inCb'[t]
        ELSE calls' = calls /\ ~inCb'[t]

C5_CallbackIffLast ==
    [][\A t \in Threads : C5_Step(t)]_vars

\* the release function ran with userdata 0xdeadbeef
C5_Witness ==
    /\ Len(calls) = 1
    /\ calls[1].ref = TheRef
    /\ calls[1].userdata = "0xdeadbeef"
    /\ n_refs = 0

\* C14: a step that acquires references from a counter that is 0 fails an
\* assertion and returns nothing; c_ref_add is the only call with such a
\* step, and no c_ref_add returns the counter from a state where it is 0.
C14_RetainOnZeroAborts ==
    [][(n_refs = 0 /\ acquired' # acquired) =>
           /\ aborted'
           /\ ret' = ret
           /\ pc' = pc]_vars

\* c_ref_add was called from inside the release function, after the counter
\* had dropped to 0, and the process aborted
C14_Witness ==
    /\ aborted
    /\ wasZero
    /\ inCb[1]
    /\ Len(calls) = 1
    /\ pc[1] = "idle"
    /\ n_refs \in Counts
    /\ acquired + C_REF_INIT = released + n_refs

\* C15: a c_ref_sub whose subtraction read a value below n fails the
\* assertion in its next step: nothing is returned and the release function
\* is not invoked, whatever the value read and whatever n.
C15_Step(t) ==
    (pc[t] = "sub_assert" /\ local[t] < arg[t].n) =>
        /\ aborted'
        /\ calls' = calls
        /\ inCb' = inCb
        /\ ret' = ret
        /\ pc'[t] = "sub_assert"

C15_OverReleaseAborts ==
    [][/\ \A t \in Threads : C15_Step(t)
       /\ \A t \in Threads :
              (pc[t] = "idle" /\ released' # released) =>
                  /\ pc'[t] = "sub_assert" \/ pc'[t] = "idle"
                  /\ pc'[t] = "sub_assert" =>
                         /\ local'[t] = n_refs
                         /\ arg'[t].n = released' - released]_vars

\* more references were released, with a release function, than the
\* counter held (it held at least one), and the process aborted
C15_Witness ==
    /\ aborted
    /\ pc[1] = "sub_assert"
    /\ arg[1].func = UserFunc
    /\ local[1] < arg[1].n
    /\ local[1] >= 1
    /\ calls = <<>>

\* C16: c_ref_add_unless_zero called with n = 0 does not get as far as its
\* loop, a c_ref_add that returns the counter has acquired at least one
\* reference, and a c_ref_sub called with n = 0 fails an assertion in the
\* step after its subtraction, without invoking the release function.
C16_ZeroCountAborts ==
    [][\A t \in Threads :
           /\ pc'[t] = "cmpxchg" => arg'[t].n # 0
           /\ (ret' # ret /\ ret'.fn = "c_ref_add" /\ ret'.val = TheRef) =>
                  acquired' > acquired
           /\ (pc[t] = "sub_assert" /\ arg[t].n = 0) =>
                  /\ aborted'
                  /\ calls' = calls
                  /\ pc'[t] = "sub_assert"]_vars

\* C19: the step after the subtraction of a c_ref_sub that was given
\* c_ref_unreachable and releases no more than the counter held aborts if
\* and only if the subtraction left 0; otherwise c_ref_sub returns NULL and
\* no release function is invoked.  c_ref_unreachable never returns.
C19_Step(t) ==
    (pc[t] = "sub_assert" /\ arg[t].func = Unreachable
                          /\ local[t] >= arg[t].n) =>
        /\ aborted' <=> (local[t] - arg[t].n = 0)
        /\ local[t] - arg[t].n # 0 =>
               /\ pc'[t] = "idle"
               /\ ret' = [by |-> t, fn |-> "c_ref_sub", val |-> NullRef]
               /\ calls' = calls
               /\ inCb' = inCb

SeesAll(t) == \A u \in Threads : seen[t][u] = writes[u]

\* C17: while a release function runs, every write any thread made to the
\* owning object (made while it owned a reference) happens before the
\* release function's thread; every c_ref_sub publishes its thread's view
\* with its subtraction; and a thread's view takes in other threads' writes
\* only in the step of a c_ref_sub whose subtraction read exactly n.
C17_Step(t) ==
    /\ inCb'[t] => \A u \in Threads : seen'[t][u] = writes'[u]
    /\ (pc[t] = "idle" /\ pc'[t] = "sub_assert") =>
           \A u \in Threads : pub'[u] >= seen[t][u]
    /\ (\E u \in Threads : u # t /\ seen'[t][u] # seen[t][u]) =>
           /\ pc[t] = "sub_assert"
           /\ local[t] = arg[t].n

C17_ReleaseVisibility ==
    [][\A t \in Threads : C17_Step(t)]_vars

\* the release function runs in a thread other than the creator, after the
\* creator and that thread have both written to the object
C17_Witness ==
    \E t \in Threads :
        /\ t # 1
        /\ inCb[t]
        /\ writes[1] >= 1
        /\ writes[t] >= 1
        /\ SeesAll(t)

\* C18 as stated: every iteration of the loop of c_ref_add_unless_zero
\* follows a modification of the counter by another thread, that is, no
\* compare-exchange has failed with the counter equal to the expected value.
C18_RetryOnlyOnChange == spurious = 0

\* C18, amended: under fair scheduling every c_ref_add_unless_zero, and
\* every c_ref_sub, that a thread is in returns; an iteration of the loop
\* that reloads a new expected value follows a modification of the counter
\* by another thread, and the other iterations are spurious failures of the
\* compare-exchange, which leave the counter and the expected value as they
\* are; c_ref_add is a single step.
C18_Iteration(t) ==
    (pc[t] = "cmpxchg" /\ pc'[t] = "cmpxchg" /\ local'[t] # local[t]) =>
        /\ local[t] # n_refs
        /\ local'[t] = n_refs
        /\ n_refs' = n_refs

C18_Spurious ==
    spurious' # spurious =>
        /\ n_refs' = n_refs
        /\ local' = local
        /\ pc' = pc
        /\ \E t \in Threads : pc[t] = "cmpxchg" /\ local[t] = n_refs

C18_CallsReturn ==
    /\ \A t \in Threads : (pc[t] = "cmpxchg") ~> (pc[t] = "idle")
    /\ \A t \in Threads : (pc[t] = "sub_assert") ~> (pc[t] = "idle")
    /\ [][(\A t \in Threads : C18_Iteration(t)) /\ C18_Spurious]_vars

\* a thread's compare-exchange failed because another thread had changed
\* the counter, and the thread is still in its loop
C18_Witness ==
    \E t \in Threads :
        /\ pc[t] = "cmpxchg"
        /\ local[t] # 0
        /\ local[t] # n_refs
        /\ n_refs # 0
        /\ spurious = 1

\* the calls of the scenario, and the counter's value after each
Scenario ==
    <<[fn |-> "c_ref_add", n |-> 14, func |-> NoFunc],
      [fn |-> "c_ref_sub", n |-> 13, func |-> NoopFunc],
      [fn |-> "c_ref_sub", n |-> 1, func |-> Unreachable],
      [fn |-> "c_ref_sub", n |-> 1, func |-> UserFunc]>>
ScenarioValues == <<15, 2, 1, 0>>

\* the first k calls made are the first k calls of the scenario
Followed(k) ==
    /\ Len(trace) >= k
    /\ \A i \in 1..k : /\ trace[i].fn = Scenario[i].fn
                        /\ trace[i].n = Scenario[i].n
                        /\ trace[i].func = Scenario[i].func

\* C20: the counter is 1 before any call; as far as the calls made follow
\* c_ref_add(14), c_ref_sub(13, noop), c_ref_sub(1, c_ref_unreachable),
\* c_ref_sub(1, record), the counter after them is 15, 2, 1, 0, none of
\* them fails an assertion and no release function runs before the last
\* call; the last call invokes the recording function, once, and nothing
\* else is ever invoked.
C20_Scenario ==
    /\ trace = <<>> => n_refs = C_REF_INIT
    /\ \A k \in 1..Len(Scenario) :
           Followed(k) =>
               /\ trace[k].value = ScenarioValues[k]
               /\ trace[k].before = 0
               /\ Len(trace) = k =>
                      /\ n_refs = ScenarioValues[k]
                      /\ ~aborted
                      /\ k < Len(Scenario) => calls = <<>>
    /\ Followed(Len(Scenario)) =>
           /\ Len(calls) <= 1
           /\ pc[1] = "idle" =>
                  calls = <<[by |-> 1, func |-> UserFunc, ref |-> TheRef,
                             userdata |-> NoData]>>

\* the four calls of the scenario were made and the recording function
\* is running
C20_Witness ==
    /\ Followed(Len(Scenario))
    /\ Len(trace) = Len(Scenario)
    /\ n_refs = 0
    /\ inCb[1]
    /\ Len(calls) = 1

\* C29: in every state reached by threads that call c_ref_add only while
\* they own a reference, release no more than they own and call
\* c_ref_add_unless_zero freely, the counter equals the number of
\* references the threads own together, the creator's included; no
\* assertion has failed; and once the release function has been invoked the
\* counter is 0 and no thread owns a reference.
C29_CounterIsHeld ==
    /\ n_refs = SumOf(held, NumThreads)
    /\ ~aborted
    /\ calls # <<>> =>
           /\ n_refs = 0
           /\ \A t \in Threads : held[t] = 0

\* the creator owns one reference and another thread two, which it got
\* from c_ref_add_unless_zero while owning none
C29_Witness ==
    /\ held[1] = 1
    /\ held[2] = 2
    /\ n_refs = 3
    /\ acquired = 2
    /\ released = 0
    /\ ret = [by |-> 2, fn |-> "c_ref_add_unless_zero", val |-> TheRef]

(***************************************************************************)
(* Properties of CList.                                                    *)
(***************************************************************************)
RECURSIVE Traverse(_, _, _)
\* the entries met from e by c_list_entry_next, at most k of them
Traverse(h, e, k) ==
    IF e = NULL \/ k = 0 THEN <<>>
    ELSE <<e>> \o Traverse(h, c_list_entry_next(h, e), k - 1)

RECURSIVE ChainNext(_, _, _)
\* the entries met from e by following the next field, at most k of them
ChainNext(h, e, k) ==
    IF e = NULL \/ k = 0 THEN <<>>
    ELSE <<e>> \o ChainNext(h, h.next[e], k - 1)

RECURSIVE ChainPrev(_, _, _)
\* the entries met from e by following the prev field, at most k of them
ChainPrev(h, e, k) ==
    IF e = NULL \/ k = 0 THEN <<>>
    ELSE <<e>> \o ChainPrev(h, h.prev[e], k - 1)

Reverse(s) == [i \in 1..Len(s) |-> s[Len(s) + 1 - i]]
NoDup(s) == \A i, j \in 1..Len(s) : s[i] = s[j] => i = j
Fuel == NumEntries + 1

\* C6: traversing a list from c_list_first by c_list_entry_next visits
\* exactly the sequence got by applying the same calls to a sequence: append
\* at the end, prepend at the front, remove deletes and keeps the order.
C6_ListOrdering ==
    \A l \in Lists : Traverse(Heap, c_list_first(Heap, l), Fuel) = seq[l]

\* A, B, C were appended and D was then prepended: D, A, B, C
C6_Witness ==
    /\ op.fn = "prepend"
    /\ op.list = 1
    /\ seq[1] = <<4, 1, 2, 3>>
    /\ Traverse(Heap, c_list_first(Heap, 1), Fuel) = <<4, 1, 2, 3>>

\* C7: list.first is NULL if and only if list.last is NULL, and no
\* assertion of c-list.h has failed.
C7_EndsAgree ==
    /\ ~list_abort
    /\ \A l \in Lists : EndsAgree(Heap, l)

\* the only entry of one list was removed while another list holds entries
C7_Witness ==
    /\ op.fn = "remove"
    /\ pre.first[op.list] = op.entry
    /\ pre.last[op.list] = op.entry
    /\ first[op.list] = NULL
    /\ \E l \in Lists : first[l] # NULL /\ first[l] # last[l]

\* C8: in a non-empty list next leads from first to last through distinct
\* entries, prev leads from last to first through the same entries in the
\* reverse order, first.prev and last.next are NULL, a.next = b exactly when
\* b.prev = a, and every linked entry is met in exactly one list.
C8_ListShape ==
    /\ \A l \in Lists : first[l] # NULL =>
           LET fw == ChainNext(Heap, first[l], Fuel)
               bw == ChainPrev(Heap, last[l], Fuel)
           IN  /\ last[l] # NULL
               /\ Len(fw) <= NumEntries
               /\ NoDup(fw)
               /\ fw[Len(fw)] = last[l]
               /\ bw = Reverse(fw)
               /\ bw[Len(bw)] = first[l]
               /\ prev[first[l]] = NULL
               /\ next[last[l]] = NULL
    /\ \A a, b \in Entries : (next[a] = b) <=> (prev[b] = a)
    /\ \A e \in Entries :
           c_list_entry_is_linked(Heap, e) <=>
               \E l \in Lists : e \in Elems(ChainNext(Heap, first[l], Fuel))
    /\ \A l, k \in Lists :
           l # k => Elems(ChainNext(Heap, first[l], Fuel))
                        \cap Elems(ChainNext(Heap, first[k], Fuel)) = {}

\* a list of three entries or more, after a removal from its middle
C8_Witness ==
    /\ op.fn = "remove"
    /\ c_list_entry_is_linked(pre, op.entry)
    /\ pre.first[op.list] # op.entry /\ pre.last[op.list] # op.entry
    /\ Len(ChainNext(Heap, first[op.list], Fuel)) >= 3

\* C9: c_list_remove of an entry that is not linked changes no field of any
\* list or entry and fails no assertion, whatever the list; and a second
\* c_list_remove of the same entry changes nothing.
C9_RemoveIdempotent ==
    op.fn = "remove" =>
        /\ ~c_list_entry_is_linked(pre, op.entry) => Heap = pre
        /\ c_list_remove(Heap, op.list, op.entry) = Heap

\* c_list_remove was called on an entry that was not linked, on a list that
\* holds entries
C9_Witness ==
    /\ op.fn = "remove"
    /\ ~c_list_entry_is_linked(pre, op.entry)
    /\ first[op.list] # NULL
    /\ first[op.list] # last[op.list]

\* C10: after c_list_remove of a linked entry the entry points to itself,
\* c_list_entry_is_linked is false and inserting it again fails no assertion;
\* a list all of whose entries were removed is empty, and every entry that
\* is in no list points to itself.
C10_RemoveResets ==
    /\ (op.fn = "remove" /\ c_list_entry_is_linked(pre, op.entry)) =>
           /\ ~list_abort
           /\ prev[op.entry] = op.entry
           /\ next[op.entry] = op.entry
           /\ ~c_list_entry_is_linked(Heap, op.entry)
           /\ \A l \in Lists :
                  /\ ~c_list_append(Heap, l, op.entry).abort
                  /\ ~c_list_prepend(Heap, l, op.entry).abort
    /\ \A l \in Lists : seq[l] = <<>> => first[l] = NULL /\ last[l] = NULL
    /\ \A e \in Entries : Unused(e) => prev[e] = e /\ next[e] = e

\* the last entry left in any list was removed
C10_Witness ==
    /\ op.fn = "remove"
    /\ c_list_entry_is_linked(pre, op.entry)
    /\ \A l \in Lists : seq[l] = <<>> /\ first[l] = NULL
    /\ \A e \in Entries : ~c_list_entry_is_linked(Heap, e)

Occurrences(s, e) == Cardinality({i \in 1..Len(s) : s[i] = e})
\* the lists in which e is met from first by following next
ListsOf(e) ==
    {l \in Lists : e \in Elems(ChainNext(Heap, first[l], Fuel))}

\* C11: c_list_entry_is_linked(e) is true if and only if e is met from the
\* first entry of exactly one list by following next; no entry is met in
\* two lists or twice in one list; the prev and next of a linked entry are
\* never the entry itself, the only entry of a list included.
C11_LinkedIffInOneList ==
    \A e \in Entries :
        /\ c_list_entry_is_linked(Heap, e) <=> Cardinality(ListsOf(e)) = 1
        /\ Cardinality(ListsOf(e)) <= 1
        /\ \A l \in Lists :
               Occurrences(ChainNext(Heap, first[l], Fuel), e) <= 1
        /\ c_list_entry_is_linked(Heap, e) => prev[e] # e /\ next[e] # e
        /\ (\E l \in Lists : first[l] = e /\ last[l] = e) =>
               /\ c_list_entry_is_linked(Heap, e)
               /\ prev[e] = NULL /\ next[e] = NULL

\* an entry is alone in its list while another was removed from that list
\* and a second list holds two entries
C11_Witness ==
    \E e \in Entries, l \in Lists :
        /\ first[l] = e /\ last[l] = e
        /\ c_list_entry_is_linked(Heap, e)
        /\ op.fn = "remove" /\ op.list = l /\ op.entry # e
        /\ c_list_entry_is_linked(pre, op.entry)
        /\ ~c_list_entry_is_linked(Heap, op.entry)
        /\ \E k \in Lists : k # l /\ Len(seq[k]) = 2

\* the entry the owner expects after e in its list, NULL if there is none
Following(e) ==
    IF Unused(e) THEN NULL
    ELSE LET l == CHOOSE k \in Lists : e \in Elems(seq[k])
             i == CHOOSE j \in 1..Len(seq[l]) : seq[l][j] = e
         IN  IF i = Len(seq[l]) THEN NULL ELSE seq[l][i + 1]

\* the entry the owner expects before e in its list, NULL if there is none
Preceding(e) ==
    IF Unused(e) THEN NULL
    ELSE LET l == CHOOSE k \in Lists : e \in Elems(seq[k])
             i == CHOOSE j \in 1..Len(seq[l]) : seq[l][j] = e
         IN  IF i = 1 THEN NULL ELSE seq[l][i - 1]

\* C12: c_list_entry_next(e) is NULL when e is not linked or is the last
\* entry of its list and the entry after e otherwise; c_list_entry_prev(e)
\* is NULL when e is not linked or is the first entry and the entry before
\* e otherwise; neither is ever e; and the last such call returned that.
C12_Neighbours ==
    /\ \A e \in Entries :
           /\ c_list_entry_next(Heap, e) = Following(e)
           /\ c_list_entry_prev(Heap, e) = Preceding(e)
           /\ c_list_entry_next(Heap, e) # e
           /\ c_list_entry_prev(Heap, e) # e
           /\ ~c_list_entry_is_linked(Heap, e) =>
                  /\ c_list_entry_next(Heap, e) = NULL
                  /\ c_list_entry_prev(Heap, e) = NULL
           /\ (\E l \in Lists : last[l] = e) =>
                  c_list_entry_next(Heap, e) = NULL
           /\ (\E l \in Lists : first[l] = e) =>
                  c_list_entry_prev(Heap, e) = NULL
    /\ op.fn = "entry_next" => op.res = Following(op.entry)
    /\ op.fn = "entry_prev" => op.res = Preceding(op.entry)

\* c_list_entry_next was called on the middle entry of a list of three
\* while some entry is in no list
C12_Witness ==
    /\ op.fn = "entry_next"
    /\ \E l \in Lists :
           /\ Len(seq[l]) = 3
           /\ op.entry = seq[l][2]
           /\ op.res = seq[l][3]
    /\ \E e \in Entries : Unused(e) /\ c_list_entry_next(Heap, e) = NULL

\* the entry was met in some list before the last call
WasListed(e) ==
    \E l \in Lists : e \in Elems(ChainNext(pre, pre.first[l], Fuel))

\* C13: c_list_prepend or c_list_append of an entry that is in a list, the
\* same list or another, fails an assertion and leaves every field of
\* every list and entry as it was before the call.
C13_InsertLinkedAborts ==
    (op.fn \in {"prepend", "append"} /\ WasListed(op.entry)) =>
        /\ list_abort
        /\ first = pre.first /\ last = pre.last
        /\ prev = pre.prev /\ next = pre.next
        /\ seq = [l \in Lists |-> ChainNext(pre, pre.first[l], Fuel)]

\* the first entry of a list of two was inserted into another list that
\* holds an entry
C13_Witness ==
    /\ op.fn \in {"prepend", "append"}
    /\ list_abort
    /\ \E k \in Lists :
           /\ k # op.list
           /\ pre.first[k] = op.entry
           /\ pre.last[k] # op.entry
    /\ pre.first[op.list] # NULL

\* C21: c_list_init leaves first and last NULL whatever the list held, and
\* so they are in the initial state; c_list_append or c_list_prepend of an
\* entry to an empty list makes first and last that entry, with the entry's
\* prev and next NULL; c_list_remove of the only entry of a list makes
\* first and last NULL again.  None of these fails an assertion.
C21_EmptyList ==
    /\ \A l \in Lists :
           /\ c_list_init(Heap, l).first[l] = NULL
           /\ c_list_init(Heap, l).last[l] = NULL
           /\ op.fn = "init" => first[l] = NULL /\ last[l] = NULL
    /\ (/\ op.fn \in {"prepend", "append"}
        /\ pre.first[op.list] = NULL
        /\ pre.last[op.list] = NULL) =>
           /\ ~list_abort
           /\ first[op.list] = op.entry
           /\ last[op.list] = op.entry
           /\ prev[op.entry] = NULL
           /\ next[op.entry] = NULL
    /\ (/\ op.fn = "remove"
        /\ pre.first[op.list] = op.entry
        /\ pre.last[op.list] = op.entry) =>
           /\ ~list_abort
           /\ first[op.list] = NULL
           /\ last[op.list] = NULL

\* the entry that was alone in its list, with NULL neighbours, was removed
\* and the list is empty again
C21_Witness ==
    /\ op.fn = "remove"
    /\ pre.first[op.list] = op.entry
    /\ pre.last[op.list] = op.entry
    /\ pre.prev[op.entry] = NULL
    /\ pre.next[op.entry] = NULL
    /\ first[op.list] = NULL
    /\ last[op.list] = NULL
    /\ seq[op.list] = <<>>

\* the step is a call of a CRef function with a NULL counter
C22_NullCall ==
    /\ trace' # trace
    /\ trace'[1].ref = NullRef

C22_Step ==
    /\ C22_NullCall =>
           /\ UNCHANGED <<n_refs, pc, local, arg, inCb, calls, aborted, held,
                          acquired, released, wasZero, zeroBy, memVars>>
           /\ ret' = [by |-> 1, fn |-> trace'[1].fn, val |-> NullRef]
    /\ ret'.fn = "c_ref_sub" => ret'.val = NullRef
    /\ (trace' # trace /\ trace'[1].fn = "c_ref_add" /\ ~aborted') =>
           ret' = [by |-> 1, fn |-> "c_ref_add", val |-> trace'[1].ref]

\* C22: c_ref_add, c_ref_add_unless_zero and c_ref_sub called with a NULL
\* counter and n > 0 leave the counter and all other state as they were,
\* invoke no release function, fail no assertion and return NULL; c_ref_sub
\* returns NULL from every call, with a NULL counter or not, having stored 0
\* or not; c_ref_add returns the counter it was given.
C22_NullNoop == [][C22_Step]_vars

\* c_ref_sub was called with NULL and c_ref_unreachable while the caller
\* owns three references: the counter is still 3 and NULL was returned
C22_Witness ==
    /\ trace = Noted("c_ref_sub", NullRef, 2, Unreachable, 3)
    /\ n_refs = 3
    /\ held[1] = 3
    /\ calls = <<>>
    /\ pc[1] = "idle"
    /\ ret = [by |-> 1, fn |-> "c_ref_sub", val |-> NullRef]
    /\ ~aborted

\* C25: c_list_remove of an entry between two others makes the one before
\* it point to the one after it and back, and leaves list.first and
\* list.last as they were; of the first entry, makes list.first the entry
\* after it, whose prev becomes NULL; of the last entry, makes list.last
\* the entry before it, whose next becomes NULL; the entries that remain
\* keep their order, in that list and in every other.
C25_RemoveJoins ==
    (op.fn = "remove" /\ c_list_entry_is_linked(pre, op.entry)) =>
        LET l == op.list
            e == op.entry
            before == pre.prev[e]
            after == pre.next[e]
        IN  /\ ~list_abort
            /\ (before # NULL /\ after # NULL) =>
                   /\ next[before] = after
                   /\ prev[after] = before
                   /\ first[l] = pre.first[l]
                   /\ last[l] = pre.last[l]
            /\ pre.first[l] = e =>
                   /\ before = NULL
                   /\ first[l] = after
                   /\ after # NULL => prev[after] = NULL
            /\ pre.last[l] = e =>
                   /\ after = NULL
                   /\ last[l] = before
                   /\ before # NULL => next[before] = NULL
            /\ pre.first[l] # e => first[l] = pre.first[l]
            /\ pre.last[l] # e => last[l] = pre.last[l]
            /\ \A k \in Lists :
                   ChainNext(Heap, first[k], Fuel) =
                       Without(ChainNext(pre, pre.first[k], Fuel), e)
            /\ \A k \in Lists :
                   ChainPrev(Heap, last[k], Fuel) =
                       Without(ChainPrev(pre, pre.last[k], Fuel), e)

\* the second entry of a list of four was removed: the first and the third
\* now point to each other
C25_Witness ==
    /\ op.fn = "remove"
    /\ ChainNext(pre, pre.first[op.list], Fuel) = <<1, 2, 3, 4>>
    /\ op.entry = 2
    /\ next[1] = 3
    /\ prev[3] = 1
    /\ ChainNext(Heap, first[op.list], Fuel) = <<1, 3, 4>>
    /\ first[op.list] = 1
    /\ last[op.list] = 4

\* the pointer fields whose values differ between two heaps
Changed(h0, h1) ==
    {<<"first", l>> : l \in {k \in Lists : h0.first[k] # h1.first[k]}}
    \cup {<<"last", l>> : l \in {k \in Lists : h0.last[k] # h1.last[k]}}
    \cup {<<"prev", e>> : e \in {x \in Entries : h0.prev[x] # h1.prev[x]}}
    \cup {<<"next", e>> : e \in {x \in Entries : h0.next[x] # h1.next[x]}}

\* C26 as claimed: c_list_prepend changes at most 3 pointer fields.
C26_PrependThreeFields ==
    op.fn = "prepend" => Cardinality(Changed(pre, Heap)) <= 3

\* C26: c_list_prepend writes 4 pointer fields, each of which changes:
\* list.first, the entry's prev and next, and list.last when the list was
\* empty or the former first entry's prev when it was not; every other
\* pointer field is left unchanged.
C26_PrependFourFields ==
    op.fn = "prepend" =>
        /\ ~list_abort
        /\ Cardinality(Changed(pre, Heap)) = 4
        /\ Changed(pre, Heap) =
               {<<"first", op.list>>, <<"prev", op.entry>>,
                <<"next", op.entry>>,
                IF pre.first[op.list] = NULL
                THEN <<"last", op.list>>
                ELSE <<"prev", pre.first[op.list]>>}

\* an entry was prepended to an empty list while the other list holds two
\* entries
C26_Witness ==
    /\ op.fn = "prepend"
    /\ pre.first[op.list] = NULL
    /\ Changed(pre, Heap) =
           {<<"first", op.list>>, <<"last", op.list>>,
            <<"prev", op.entry>>, <<"next", op.entry>>}
    /\ \E k \in Lists :
           /\ k # op.list
           /\ Len(seq[k]) = 2
           /\ prev[last[k]] = first[k]

\* the list in which e was met before the last call, NULL if in none
ListOfPre(e) ==
    IF \E k \in Lists : e \in Elems(ChainNext(pre, pre.first[k], Fuel))
    THEN CHOOSE k \in Lists : e \in Elems(ChainNext(pre, pre.first[k], Fuel))
    ELSE NULL

\* C27: c_list_remove(list, entry) with an entry that is in another list
\* fails an assertion, whether the entry is the first, a middle or the last
\* entry of that list and whether list is empty or not.
C27_RemoveFromOtherListAborts ==
    (/\ op.fn = "remove"
     /\ ListOfPre(op.entry) # NULL
     /\ ListOfPre(op.entry) # op.list) => list_abort

\* C28: for a list and an entry x that is not linked, c_list_append(list, x)
\* followed by c_list_remove(list, x) leaves first and last of every list
\* and prev and next of every entry, those of x included, as they were
\* before the c_list_append, and fails no assertion; the same holds of
\* c_list_prepend(list, x) followed by c_list_remove(list, x).
C28_InsertRemoveRestores ==
    /\ op.fn \in {"append", "prepend"} =>
           c_list_remove(Heap, op.list, op.entry) = pre
    /\ \A l \in Lists, x \in Entries :
           ~c_list_entry_is_linked(Heap, x) =>
               /\ ~c_list_append(Heap, l, x).abort
               /\ c_list_remove(c_list_append(Heap, l, x), l, x) = Heap
               /\ ~c_list_prepend(Heap, l, x).abort
               /\ c_list_remove(c_list_prepend(Heap, l, x), l, x) = Heap

\* an entry was removed from the front of a list of three: what the list
\* held before the removal is what prepending the entry to the list as it
\* is now gives, and the entry points to itself again
C28_Witness ==
    /\ op.fn = "remove"
    /\ c_list_entry_is_linked(pre, op.entry)
    /\ pre.first[op.list] = op.entry
    /\ Len(ChainNext(pre, pre.first[op.list], Fuel)) = 3
    /\ c_list_prepend(Heap, op.list, op.entry) = pre
    /\ prev[op.entry] = op.entry
    /\ next[op.entry] = op.entry
    /\ prev[first[op.list]] = NULL

\* C30: c_list_prepend, c_list_append and c_list_remove called on a list
\* with an entry that is not linked or is in that list leave as they were
\* first and last of every other list, prev and next of every entry of
\* another list, and prev and next of every other entry that is not linked,
\* which still point to the entry itself.
C30_OtherListsUntouched ==
    (/\ op.fn \in {"prepend", "append", "remove"}
     /\ ListOfPre(op.entry) \in {NULL, op.list}) =>
        /\ \A k \in Lists \ {op.list} :
               /\ first[k] = pre.first[k]
               /\ last[k] = pre.last[k]
        /\ \A e \in Entries \ {op.entry} :
               ListOfPre(e) # op.list =>
                   /\ prev[e] = pre.prev[e]
                   /\ next[e] = pre.next[e]
                   /\ ListOfPre(e) = NULL => prev[e] = e /\ next[e] = e

\* the first of the two entries of a list was removed while the other list
\* holds an entry and the fourth entry is in no list
C30_Witness ==
    /\ op.fn = "remove"
    /\ ListOfPre(op.entry) = op.list
    /\ pre.first[op.list] = op.entry
    /\ Len(ChainNext(pre, pre.first[op.list], Fuel)) = 2
    /\ ~c_list_entry_is_linked(Heap, op.entry)
    /\ \E k \in Lists \ {op.list} :
           /\ first[k] # NULL
           /\ first[k] = pre.first[k]
           /\ last[k] = first[k]
    /\ \E e \in Entries \ {op.entry} :
           /\ ListOfPre(e) = NULL
           /\ prev[e] = e
           /\ next[e] = e

(***************************************************************************)
(* Properties of the bitmap helpers and of c_div_round_up.                 *)
(***************************************************************************)
\* the value of bit j of b, read from the byte without c_bitmap_test
BitOf(b, j) == (b[j \div 8] \div 2^(j % 8)) % 2 = 1

\* C23: whatever the bitmap holds and for every bit i inside it,
\* c_bitmap_set(bitmap, i) makes c_bitmap_test(bitmap, i) true and
\* c_bitmap_clear(bitmap, i) makes it false, and each leaves every other bit
\* of the bitmap as it was.
C23_SetClearOneBit ==
    /\ bit_op.fn = "set" => c_bitmap_test(bitmap, bit_op.bit)
    /\ bit_op.fn = "clear" => ~c_bitmap_test(bitmap, bit_op.bit)
    /\ bit_op.fn \in {"set", "clear"} =>
           /\ \A j \in AllBits \ {bit_op.bit} :
                  /\ c_bitmap_test(bitmap, j) = c_bitmap_test(bit_pre, j)
                  /\ BitOf(bitmap, j) = BitOf(bit_pre, j)
           /\ \A k \in Bytes : bitmap[k] \in 0..255
    /\ bit_op.fn = "test" =>
           /\ bit_op.res = BitOf(bitmap, bit_op.bit)
           /\ bitmap = bit_pre

\* bit 8, the first of the second byte, was cleared while bits 0 and 7 are
\* set and bit 1 is not
C23_Witness ==
    /\ bit_op.fn = "clear"
    /\ bit_op.bit = 8
    /\ c_bitmap_test(bit_pre, 8)
    /\ ~c_bitmap_test(bitmap, 8)
    /\ bitmap[0] = 129
    /\ bit_pre[1] = 1
    /\ bitmap[1] = 0

\* C24: for all x and all y > 0 of one unsigned width, c_div_round_up(x, y)
\* is x / y rounded up, the least q with q * y >= x; it equals
\* (x + y - 1) / y whenever x + y - 1 fits the width, and is the rounded-up
\* quotient also when x + y - 1 wraps (the width's largest value less 2,
\* divided by 10, included).
C24_DivRoundUp ==
    div.q # NoQuot =>
        /\ div.q \in UInts
        /\ div.q * div.y >= div.x
        /\ div.x = 0 => div.q = 0
        /\ div.x > 0 => div.q >= 1 /\ (div.q - 1) * div.y < div.x
        /\ div.x + div.y - 1 < UINT_MOD =>
               /\ div.q = (div.x + div.y - 1) \div div.y
               /\ div.q = TEST_ALT_DIV(div.x, div.y)
        /\ (div.x = UINT_MOD - 3 /\ div.y = 10) =>
               div.q = ((UINT_MOD - 3) \div 10) + 1

\* the largest value less 2 was divided by 10: x + y - 1 wraps and the
\* alternative yields 0
C24_Witness ==
    /\ div.x = UINT_MOD - 3
    /\ div.y = 10
    /\ div.x + div.y - 1 >= UINT_MOD
    /\ div.q = ((UINT_MOD - 3) \div 10) + 1
    /\ TEST_ALT_DIV(div.x, div.y) = 0
====
